---- MODULE Spec2Model ----
(***************************************************************************)
(* Model of src/main.ts: the AI code reviewer action.                      *)
(*                                                                         *)
(*  SpecPos  - getDiffPosition, the scan of one file's patch text for the  *)
(*             diff position of a new-file line number.                    *)
(*  Spec     - one run of main(): PR details, diff retrieval, include      *)
(*             filter, analyzeCode (one model call per hunk),              *)
(*             createReviewComment (position lookup, review submission).   *)
(***************************************************************************)
EXTENDS Integers, Sequences, FiniteSets, TLC

VARIABLES
    \* ---- getDiffPosition scan (SpecPos) ----
    posPc,              \* "entry" | "lookup" | "scan" | "done"
    patch,              \* fileDiff.patch split on "\n" (diffLines), or NoPatch
    line,               \* the target line handed to getDiffPosition
    i,                  \* loop index: number of diffLines already scanned
    currentLineInDiff,
    positionInDiff,
    posResult,          \* returned value: a position or Null
    \* ---- main run (Spec) ----
    pc,                 \* position of main()
    exitCode,           \* the process exit code "0" or "1" ("running" before)
    outcome,            \* where main() ended ("" while it runs)
    diffThrew,          \* compareCommits threw
    includeInput,       \* the action's configured `include` setting
    includePatterns,
    parsedDiff,
    filteredDiff,
    fileIdx, chunkIdx,  \* analyzeCode loop position
    callLog,            \* model calls made so far: <<file index, chunk index, outcome>>
    comments,           \* findings collected by analyzeCode
    fileDiffs,          \* pulls.listFiles result
    formattedComments,
    reviewCalls,        \* number of pulls.createReview calls
    submitted,          \* the comments argument of the createReview call
    \* ---- getPRDetails / getUniquePRCommits ----
    remote,             \* what the repository host holds: the pull request's
                        \* commits and the open pull requests
    currentCommitShas,
    prIdx,              \* loop index into allPRs.data
    reviewedCommitShas,
    uniqueCommits,      \* prDetails.uniqueCommits
    dedupFailed         \* a retrieval of getUniquePRCommits threw

posVars == <<posPc, patch, line, i, currentLineInDiff, positionInDiff, posResult>>
runVars == <<pc, exitCode, outcome, diffThrew, includeInput, includePatterns, parsedDiff,
             filteredDiff, fileIdx, chunkIdx, callLog, comments, fileDiffs,
             formattedComments, reviewCalls, submitted>>
dedupVars == <<remote, currentCommitShas, prIdx, reviewedCommitShas, uniqueCommits,
               dedupFailed>>
vars == <<posVars, runVars, dedupVars>>

(***************************************************************************)
(* Bounds                                                                  *)
(***************************************************************************)
MaxBody == 2          \* body lines per hunk in the generated patches
MaxGap == 2           \* unchanged new-file lines skipped between two hunks
MaxFirstStart == 2    \* new-file start line of the first hunk
MaxFiles == 2         \* files in the parsed diff
MaxHunks == 3         \* hunks in the parsed diff, all files together
MaxReviews == 2       \* reviews in one model reply
MaxCommits == 2       \* commits of one pull request

(***************************************************************************)
(* Values                                                                  *)
(***************************************************************************)
\* JavaScript numbers as far as the code tells them apart: an integer or NaN.
Num(v) == [nan |-> FALSE, v |-> v]
NaN == [nan |-> TRUE, v |-> 0]

\* number | null results
Null == [found |-> FALSE, pos |-> 0]
Pos(p) == [found |-> TRUE, pos |-> p]

\* a file without patch text (`!fileDiff.patch`: undefined or "")
NoPatch == <<>>

(***************************************************************************)
(* Patch text.  A patch line is a hunk header, or a body line that starts  *)
(* with " " (ctx), "+" (add) or "-" (del).  A header's text is             *)
(* "@@ -oldStart[,oldLen] +newStart[,newLen] @@": unified diff writes the  *)
(* ",len" part only when the length is not 1.                              *)
(***************************************************************************)
Kinds == {"ctx", "add", "del"}

Hdr(oldLen, newStart, newLen) ==
    [kind |-> "hdr", oldLen |-> oldLen, newStart |-> newStart, newLen |-> newLen]
Body(k) == [kind |-> k, oldLen |-> 0, newStart |-> 0, newLen |-> 0]

RECURSIVE CountKind(_, _)
CountKind(body, ks) ==
    IF body = <<>> THEN 0
    ELSE (IF Head(body) \in ks THEN 1 ELSE 0) + CountKind(Tail(body), ks)

OldLen(body) == CountKind(body, {"ctx", "del"})
NewLen(body) == CountKind(body, {"ctx", "add"})

BodiesUpTo(n) == UNION {[1..k -> Kinds] : k \in 1..n}
BodiesWith(o, n) == {b \in BodiesUpTo(o + n) : OldLen(b) = o /\ NewLen(b) = n}

\* the text lines of one hunk
HunkLines(newStart, body) ==
    <<Hdr(OldLen(body), newStart, NewLen(body))>> \o [k \in 1..Len(body) |-> Body(body[k])]

\* one past the last new-file line a hunk covers
HunkEnd(newStart, body) == newStart + NewLen(body)

OneHunkPatches ==
    {HunkLines(s, b) : s \in 1..MaxFirstStart, b \in BodiesUpTo(MaxBody)}

TwoHunkPatches ==
    UNION {{HunkLines(s, b1) \o HunkLines(HunkEnd(s, b1) + g, b2) :
                g \in 1..MaxGap, b2 \in BodiesUpTo(MaxBody)} :
           s \in 1..MaxFirstStart, b1 \in BodiesUpTo(MaxBody)}

\* the patches "@@ -1,3 +1,3 @@ ... @@ -10,2 +12,4 @@ ..."
SpecExamplePatches ==
    {HunkLines(1, b1) \o HunkLines(12, b2) :
        b1 \in BodiesWith(3, 3), b2 \in BodiesWith(2, 4)}

Patches == OneHunkPatches \cup TwoHunkPatches \cup SpecExamplePatches

(***************************************************************************)
(* getDiffPosition                                                         *)
(***************************************************************************)
\* a rejection test that forgets zero
Falsy_NaNOnly(n) == n.nan

\* `!line`: 0 and NaN are falsy (undefined is NaN after Number())
Falsy(n) == n.nan \/ n.v = 0

\* diffLine.startsWith("@@")
StartsWithAtAt(diffLine) == diffLine.kind = "hdr"

\* diffLine.match(/@@ \-(\d+),\d+ \+(\d+),\d+ @@/): both lengths written out
HeaderMatch(diffLine) == diffLine.oldLen # 1 /\ diffLine.newLen # 1

\* diffLine.startsWith("-")
StartsWithMinus(diffLine) == diffLine.kind = "del"

\* currentLineInDiff === line
SameNumber(cur, n) == ~n.nan /\ cur = n.v

\* one iteration of the for loop; st = [cur, pos, ret]
ScanLine(st, diffLine, n) ==
    LET pos == st.pos + 1
        cur == IF StartsWithAtAt(diffLine)
                 THEN (IF HeaderMatch(diffLine) THEN diffLine.newStart ELSE st.cur)
               ELSE IF ~StartsWithMinus(diffLine) THEN st.cur + 1
               ELSE st.cur
    IN [cur |-> cur, pos |-> pos,
        ret |-> IF SameNumber(cur, n) THEN Pos(pos) ELSE Null]

RECURSIVE ScanFrom(_, _, _, _)
ScanFrom(st, diffLines, k, n) ==
    IF k > Len(diffLines) THEN Null
    ELSE LET nx == ScanLine(st, diffLines[k], n)
         IN IF nx.ret.found THEN nx.ret ELSE ScanFrom(nx, diffLines, k + 1, n)

\* fileDiffs.find(file => file.filename === path); fds is a function path -> patch
FindFileDiff(fds, path) == IF path \in DOMAIN fds THEN fds[path] ELSE NoPatch

GetDiffPosition(fds, path, n) ==
    IF Falsy(n) THEN Null
    ELSE LET p == FindFileDiff(fds, path)
         IN IF p = NoPatch THEN Null
            ELSE ScanFrom([cur |-> 0, pos |-> 0, ret |-> Null], p, 1, n)

(***************************************************************************)
(* getUniquePRCommits: the data it retrieves.  A login is a sequence of    *)
(* text pieces, so that "Peadar-bot" contains the piece "Peadar".          *)
(***************************************************************************)
PullNumber == 1

\* const reviewerUsername = "Peadar"
ReviewerUsername == "Peadar"

NoUser == <<>>                    \* a review whose user is null
Logins == {<<"Peadar">>, <<"Peadar", "-bot">>, <<"alice">>, NoUser}

\* login.includes(name); undefined (falsy) for a review without user
Includes(login, name) == \E k \in 1..Len(login) : login[k] = name

\* reviews.data.some(review => review.user?.login?.includes(reviewerUsername))
HasUserReviewed(reviews) ==
    \E k \in 1..Len(reviews) : Includes(reviews[k], ReviewerUsername)

\* currentCommitShas.filter(sha => !reviewedCommitShas.has(sha))
UniqueCommits(current, reviewed) ==
    LET NotReviewed(sha) == sha \notin reviewed IN SelectSeq(current, NotReviewed)

Shas == {"c1", "c2"}
CommitLists == UNION {[1..n -> Shas] : n \in 0..MaxCommits}
ReviewLists == {<<>>} \cup {<<l>> : l \in Logins} \cup {<<(<<"alice">>), (<<"Peadar">>)>>}

PR(number, reviews, commits) == [number |-> number, reviews |-> reviews, commits |-> commits]
OtherPRs(number) == {PR(number, r, c) : r \in ReviewLists, c \in CommitLists}

\* the open pull requests: the request itself (reviewed by the reviewer) may
\* be among them, and up to two other requests
OpenPRLists(own) ==
    {a \o b \o c :
        a \in {<<>>, <<PR(PullNumber, <<(<<"Peadar">>)>>, own)>>},
        b \in {<<>>} \cup {<<x>> : x \in OtherPRs(2)},
        c \in {<<>>} \cup {<<x>> : x \in OtherPRs(3)}}

Remote(commits, prs) == [commits |-> commits, prs |-> prs]
Remotes == UNION {{Remote(own, prs) : prs \in OpenPRLists(own)} : own \in CommitLists}

\* three repositories for whole runs: one other request reviewed by the
\* reviewer holds one of the two commits, or both, or there is no other request
PartlyReviewed ==
    Remote(<<"c1", "c2">>,
           <<PR(PullNumber, <<(<<"Peadar">>)>>, <<"c1", "c2">>),
             PR(2, <<(<<"Peadar">>)>>, <<"c1">>),
             PR(3, <<(<<"alice">>)>>, <<"c2">>)>>)
AllReviewed ==
    Remote(<<"c1", "c2">>, <<PR(2, <<(<<"Peadar">>)>>, <<"c2", "c1">>)>>)
NoOtherPR == Remote(<<"c1", "c2">>, <<PR(PullNumber, <<>>, <<"c1", "c2">>)>>)
RunRemotes == {PartlyReviewed, AllReviewed, NoOtherPR}

DedupStart ==
    /\ currentCommitShas = <<>> /\ prIdx = 0 /\ reviewedCommitShas = {}
    /\ uniqueCommits = <<>> /\ dedupFailed = FALSE

DedupIdle == remote = Remote(<<>>, <<>>) /\ DedupStart

(***************************************************************************)
(* SpecPos: one call of getDiffPosition, one loop iteration per step       *)
(***************************************************************************)
\* new-file line number carried by patch line k (0 for headers and removed
\* lines), by the unified diff format: the hunk header's new start plus the
\* added/context lines of the hunk before it
RECURSIVE NewLineNo(_, _)
NewLineNo(p, k) ==
    IF p[k].kind \in {"hdr", "del"} THEN 0
    ELSE LET h == CHOOSE j \in 1..k :
                    p[j].kind = "hdr" /\ \A m \in (j + 1)..k : p[m].kind # "hdr"
         IN p[h].newStart
              + Cardinality({m \in (h + 1)..(k - 1) : p[m].kind \in {"ctx", "add"}})

\* patch lines that are the added/context line with new-file number t
LinesNumbered(p, t) == {k \in 1..Len(p) : p[k].kind \in {"ctx", "add"} /\ NewLineNo(p, k) = t}

LastNewLine(p) ==
    LET ns == {NewLineNo(p, k) : k \in 1..Len(p)} IN CHOOSE m \in ns : \A x \in ns : x <= m

\* target lines tried on a patch: negative, zero, every line up to two past
\* the last new-file line, and NaN
Targets(p) == {Num(v) : v \in -1..(IF p = NoPatch THEN 2 ELSE LastNewLine(p) + 2)} \cup {NaN}

RunIdle ==
    /\ pc = "idle" /\ exitCode = "running" /\ outcome = "" /\ diffThrew = FALSE
    /\ includeInput = <<>> /\ includePatterns = <<>>
    /\ parsedDiff = <<>> /\ filteredDiff = <<>>
    /\ fileIdx = 0 /\ chunkIdx = 0 /\ callLog = <<>> /\ comments = <<>>
    /\ fileDiffs = <<>> /\ formattedComments = <<>>
    /\ reviewCalls = 0 /\ submitted = <<>>
    /\ DedupIdle

InitPos ==
    /\ posPc = "entry"
    /\ patch \in Patches \cup {NoPatch}
    /\ line \in Targets(patch)
    /\ i = 0 /\ currentLineInDiff = 0 /\ positionInDiff = 0
    /\ posResult = Null
    /\ RunIdle

\* if (!line) return null;
PosEntry ==
    /\ posPc = "entry"
    /\ IF Falsy(line) THEN posPc' = "done" ELSE posPc' = "lookup"
    /\ UNCHANGED <<patch, line, i, currentLineInDiff, positionInDiff, posResult, runVars, dedupVars>>

\* if (!fileDiff || !fileDiff.patch) return null;
PosLookup ==
    /\ posPc = "lookup"
    /\ IF patch = NoPatch THEN posPc' = "done" ELSE posPc' = "scan"
    /\ UNCHANGED <<patch, line, i, currentLineInDiff, positionInDiff, posResult, runVars, dedupVars>>

\* one iteration of the for loop
PosScanLine ==
    /\ posPc = "scan"
    /\ i < Len(patch)
    /\ LET nx == ScanLine([cur |-> currentLineInDiff, pos |-> positionInDiff, ret |-> Null],
                          patch[i + 1], line)
       IN /\ currentLineInDiff' = nx.cur
          /\ positionInDiff' = nx.pos
          /\ posResult' = nx.ret
          /\ posPc' = IF nx.ret.found THEN "done" ELSE "scan"
    /\ i' = i + 1
    /\ UNCHANGED <<patch, line, runVars, dedupVars>>

\* the loop ran out: return null
PosNotFound ==
    /\ posPc = "scan"
    /\ i = Len(patch)
    /\ posPc' = "done"
    /\ posResult' = Null
    /\ UNCHANGED <<patch, line, i, currentLineInDiff, positionInDiff, runVars, dedupVars>>

NextPos == PosEntry \/ PosLookup \/ PosScanLine \/ PosNotFound

SpecPos == InitPos /\ [][NextPos]_vars

\* the stepwise scan and the function used by createReviewComment agree
PosAgree == posPc = "done" => posResult = GetDiffPosition([f \in {"f"} |-> patch], "f", line)

(***************************************************************************)
(* Claims about getDiffPosition                                            *)
(***************************************************************************)
\* C1: for a target that is the new-file line number of an added or context
\* line, getDiffPosition returns the 1-based count of physical patch lines
\* up to and including that very line.
C1_ExactPosition ==
    (posPc = "done" /\ ~line.nan /\ LinesNumbered(patch, line.v) # {})
        => \E k \in LinesNumbered(patch, line.v) : posResult = Pos(k)

\* C2: for a target that is not the new-file line number of any added or
\* context line of the patch, getDiffPosition returns null.
C2_NotFoundWhenAbsent ==
    (posPc = "done" /\ (line.nan \/ LinesNumbered(patch, line.v) = {}))
        => posResult = Null

\* position of the second hunk header of a two-hunk patch
SecondHeader(p) == CHOOSE k \in 2..Len(p) : p[k].kind = "hdr"

\* C8: in the patch "@@ -1,3 +1,3 @@ ... @@ -10,2 +12,4 @@ ..." every target
\* in 12..15 maps to a position strictly greater than the position of the
\* second header, which is one more than the line count of the first hunk.
C8_SecondHunkAfterHeader ==
    (posPc = "done" /\ patch \in SpecExamplePatches /\ ~line.nan /\ line.v \in 12..15)
        => /\ posResult.found
           /\ posResult.pos > SecondHeader(patch)
           /\ SecondHeader(patch) = Cardinality({k \in 1..Len(patch) : k < SecondHeader(patch)}) + 1

\* C9 as stated: a negative, zero or non-numeric target is rejected before
\* any patch line is scanned, and the result is null.
C9_RejectedBeforeScan ==
    (posPc = "done" /\ (line.nan \/ line.v <= 0)) => (i = 0 /\ posResult = Null)

\* C9 amended: a zero or non-numeric target is rejected before any patch line
\* is scanned; a negative target is scanned like any other but matches no
\* line; in all three cases the result is null.
C9_RejectedOrNeverMatched ==
    /\ (line.nan \/ line.v = 0) => (posPc \in {"entry", "done"} /\ i = 0 /\ posResult = Null)
    /\ (~line.nan /\ line.v < 0) => posResult = Null

\* a negative target was scanned to the end of a patch and came back null
C9_Witness ==
    /\ posPc = "done" /\ ~line.nan /\ line.v < 0
    /\ patch # NoPatch /\ i = Len(patch) /\ posResult = Null

(***************************************************************************)
(* The include setting.  The setting's text is a sequence of symbols: ","  *)
(* and " " are the characters the code looks at, every other symbol is a   *)
(* whole glob: "cs" is **/*.cs, "yml" is **/*.yml, "ts" is **/*.ts and     *)
(* "all" is **/*.                                                          *)
(***************************************************************************)
RECURSIVE TrimLeft(_)
TrimLeft(s) == IF s # <<>> /\ Head(s) = " " THEN TrimLeft(Tail(s)) ELSE s

RECURSIVE TrimRight(_)
TrimRight(s) ==
    IF s # <<>> /\ s[Len(s)] = " " THEN TrimRight(SubSeq(s, 1, Len(s) - 1)) ELSE s

\* String.prototype.trim
Trim(s) == TrimRight(TrimLeft(s))

\* s.split(","), cur being the entry collected so far
RECURSIVE SplitComma(_, _)
SplitComma(s, cur) ==
    IF s = <<>> THEN <<cur>>
    ELSE IF Head(s) = "," THEN <<cur>> \o SplitComma(Tail(s), <<>>)
    ELSE SplitComma(Tail(s), Append(cur, Head(s)))

\* core.getInput("include"): the setting with surrounding whitespace trimmed
GetInput(raw) == Trim(raw)

\* "**/*.cs,**/*.yml"
DefaultInclude == <<"cs", ",", "yml">>

\* let includePatternsInput = core.getInput("include") || default;
\* includePatternsInput = includePatternsInput.trim() ? includePatternsInput : default;
IncludePatternsInput(raw) ==
    LET a == IF GetInput(raw) # <<>> THEN GetInput(raw) ELSE DefaultInclude
    IN IF Trim(a) # <<>> THEN a ELSE DefaultInclude

\* .split(",").map(s => s.trim()).filter(s => s.length > 0)
SplitPatterns(text) ==
    LET parts == SplitComma(text, <<>>)
        trimmed == [k \in 1..Len(parts) |-> Trim(parts[k])]
        NonEmpty(x) == Len(x) > 0
    IN SelectSeq(trimmed, NonEmpty)

IncludePatterns(raw) == SplitPatterns(IncludePatternsInput(raw))

IncludeSettings ==
    { <<>>, <<" ">>, <<",">>, <<" ", ",", " ">>, <<"cs">>, <<"all">>,
      <<"ts", ",", " ", "cs">>, <<"yml", ",", ",">> }

(***************************************************************************)
(* The parsed diff and the path filter                                     *)
(***************************************************************************)
DevNull == "/dev/null"
NoPath == "undefined"             \* a file whose `to` is undefined
RealPaths == {"a.cs", "b.ts"}
Paths == RealPaths \cup {DevNull, NoPath}

\* a parsed file: its target path and its number of chunks
FileDescs == [to : Paths, chunks : 0..MaxHunks]

RECURSIVE TotalChunks(_)
TotalChunks(d) == IF d = <<>> THEN 0 ELSE Head(d).chunks + TotalChunks(Tail(d))

ParsedDiffs ==
    {d \in UNION {[1..n -> FileDescs] : n \in 0..MaxFiles} : TotalChunks(d) <= MaxHunks}

\* path.normalize(file.to ?? "")
NormalizePath(to) == IF to = NoPath THEN "." ELSE to

\* minimatch(normalizedPath, pattern) for the globs above
Minimatch(normalizedPath, pattern) ==
    /\ Len(pattern) = 1
    /\ \/ pattern[1] = "all" /\ normalizedPath # "."
       \/ pattern[1] = "cs" /\ normalizedPath = "a.cs"
       \/ pattern[1] = "ts" /\ normalizedPath = "b.ts"

\* a filter that asks every pattern to match
MatchesSome_Every(file, patterns) ==
    \A k \in 1..Len(patterns) : Minimatch(NormalizePath(file.to), patterns[k])

\* includePatterns.some(pattern => minimatch(normalizedPath, pattern))
MatchesSome(file, patterns) ==
    \E k \in 1..Len(patterns) : Minimatch(NormalizePath(file.to), patterns[k])

\* parsedDiff.filter(...)
FilterDiff(d, patterns) ==
    LET Keep(file) == MatchesSome(file, patterns) IN SelectSeq(d, Keep)

(***************************************************************************)
(* The model call and its reply                                            *)
(***************************************************************************)
\* the reply text: empty (null or ""), wrapped in a ``` fence or not, valid
\* JSON or not, with a `reviews` array or without
Content(empty, fenced, valid, hasReviews, reviews) ==
    [empty |-> empty, fenced |-> fenced, valid |-> valid,
     hasReviews |-> hasReviews, reviews |-> reviews]

EmptyObject == Content(FALSE, FALSE, TRUE, FALSE, <<>>)      \* "{}"
EmptyContent == Content(TRUE, FALSE, FALSE, FALSE, <<>>)
Garbage == Content(FALSE, FALSE, FALSE, FALSE, <<>>)
ReviewsReply(rs) == Content(FALSE, FALSE, TRUE, TRUE, rs)
FencedReply(rs) == Content(FALSE, TRUE, TRUE, TRUE, rs)

\* lineNumber values of a review: a number, or something Number() turns to NaN
NumberTwo == [t |-> "num", v |-> 2]
NotANumber == [t |-> "text", v |-> 0]

\* Number(review.lineNumber)
ToNumber(raw) == IF raw.t = "num" THEN Num(raw.v) ELSE NaN

\* the k-th review of the reply to chunk c of file f has the body <<f, c, k>>
Review(raw, f, c, k) == [lineNumber |-> raw, reviewComment |-> <<f, c, k>>]

\* the `reviews` arrays tried: up to MaxReviews reviews of line 2, and one
\* review whose lineNumber is not a number
ReviewSeqs(f, c) ==
    {[k \in 1..n |-> Review(NumberTwo, f, c, k)] : n \in 0..MaxReviews}
      \cup {<<Review(NotANumber, f, c, 1)>>}

\* outcomes of openai.chat.completions.create for chunk c of file f
ModelOutcomes(f, c) ==
    {[threw |-> TRUE, content |-> EmptyContent]}
      \cup {[threw |-> FALSE, content |-> x] : x \in {Garbage, EmptyObject}}
      \cup {[threw |-> FALSE, content |-> ReviewsReply(rs)] : rs \in ReviewSeqs(f, c)}
      \cup {[threw |-> FALSE, content |-> FencedReply(<<Review(NumberTwo, f, c, 1)>>)]}

\* response.replace(/```(?:json)?|```/g, "").trim()
SanitizeAIResponse(res) == [res EXCEPT !.fenced = FALSE]

\* getAIResponse: "{}" when the call throws or the content is empty
GetAIResponse(o) ==
    IF o.threw THEN EmptyObject
    ELSE SanitizeAIResponse(IF o.content.empty THEN EmptyObject ELSE o.content)

\* JSON.parse(text) does not throw
JsonParses(text) == text.valid /\ ~text.fenced /\ ~text.empty

\* createComment: [] when parsing or `.reviews.flatMap` throws
CreateComment(file, aiResponse) ==
    IF ~JsonParses(aiResponse) \/ ~aiResponse.hasReviews THEN <<>>
    ELSE IF file.to = NoPath THEN <<>>
    ELSE [k \in 1..Len(aiResponse.reviews) |->
            [body |-> aiResponse.reviews[k].reviewComment,
             path |-> file.to,
             line |-> ToNumber(aiResponse.reviews[k].lineNumber)]]

\* the body of analyzeCode's try block for one chunk: the comments it pushes
ChunkComments(file, o) ==
    LET aiResponse == GetAIResponse(o)
    IN IF ~JsonParses(aiResponse) THEN <<>>          \* JSON.parse throws, caught
       ELSE CreateComment(file, aiResponse)

(***************************************************************************)
(* createReviewComment                                                     *)
(***************************************************************************)
\* patches of listed files: line 2 is a context line of the first, and no
\* line of the second
PatchWithLine2 == HunkLines(1, <<"ctx", "ctx", "add">>)
PatchWithoutLine2 == HunkLines(5, <<"add", "add">>)

\* filename -> patch
Listing(a, b) == [p \in RealPaths |-> IF p = "a.cs" THEN a ELSE b]
ListingOf(p, a) == [q \in {p} |-> a]

\* results of pulls.listFiles tried: a file may be missing from the listing,
\* listed without a patch, or listed with either patch
ListedFiles ==
    { [q \in {} |-> NoPatch],
      ListingOf("a.cs", PatchWithLine2),
      ListingOf("b.ts", PatchWithLine2),
      Listing(NoPatch, PatchWithLine2),
      Listing(PatchWithLine2, PatchWithoutLine2),
      Listing(PatchWithoutLine2, NoPatch) }

FormatComment(fds, c) ==
    LET diffPosition == GetDiffPosition(fds, c.path, c.line)
    IN IF diffPosition.found
         THEN [body |-> c.body, path |-> c.path, hasPosition |-> TRUE,
               position |-> diffPosition.pos]
         ELSE [body |-> c.body, path |-> c.path, hasPosition |-> TRUE, position |-> 1]

\* a loop that skips the comments without a diff position
FormatComments_SkipUnanchored(fds, cs) ==
    LET Anchored(c) == GetDiffPosition(fds, c.path, c.line).found
        kept == SelectSeq(cs, Anchored)
    IN [k \in 1..Len(kept) |-> FormatComment(fds, kept[k])]

\* the loop over comments
FormatComments(fds, cs) == [k \in 1..Len(cs) |-> FormatComment(fds, cs[k])]

(***************************************************************************)
(* Spec: one run of main()                                                 *)
(***************************************************************************)
PosIdle ==
    /\ posPc = "idle" /\ patch = NoPatch /\ line = NaN
    /\ i = 0 /\ currentLineInDiff = 0 /\ positionInDiff = 0 /\ posResult = Null

\* a run starts with the include setting and the repository given
InitWith(settings, remotes) ==
    /\ PosIdle
    /\ pc = "getPRDetails" /\ exitCode = "running" /\ outcome = "" /\ diffThrew = FALSE
    /\ includeInput \in settings
    /\ includePatterns = <<>>
    /\ parsedDiff = <<>> /\ filteredDiff = <<>>
    /\ fileIdx = 0 /\ chunkIdx = 0 /\ callLog = <<>> /\ comments = <<>>
    /\ fileDiffs = <<>> /\ formattedComments = <<>>
    /\ reviewCalls = 0 /\ submitted = <<>>
    /\ remote \in remotes
    /\ DedupStart

Init == InitWith(IncludeSettings, {PartlyReviewed})

\* main() is over: it returned (exit code 0) or process.exit(1) was called
Exit(code, how) == pc' = "done" /\ exitCode' = code /\ outcome' = how

runOnly == <<diffThrew, includeInput, includePatterns, parsedDiff, filteredDiff,
             fileIdx, chunkIdx, callLog, comments, fileDiffs, formattedComments,
             reviewCalls, submitted>>

\* getPRDetails: pulls.get returns, getUniquePRCommits is entered
PullsGet ==
    /\ pc = "getPRDetails"
    /\ pc' = "listCommits"
    /\ UNCHANGED <<posVars, dedupVars, exitCode, outcome, runOnly>>

\* getPRDetails: pulls.get throws; process.exit(1)
GetPRDetailsFails ==
    /\ pc = "getPRDetails"
    /\ Exit("1", "prDetailsFailed")
    /\ UNCHANGED <<posVars, dedupVars, runOnly>>

\* getUniquePRCommits: pulls.listCommits of the pull request
ListCommits ==
    /\ pc = "listCommits"
    /\ currentCommitShas' = remote.commits
    /\ pc' = "listPRs"
    /\ UNCHANGED <<posVars, remote, prIdx, reviewedCommitShas, uniqueCommits, dedupFailed,
                   exitCode, outcome, runOnly>>

\* getUniquePRCommits: pulls.list of the open pull requests
ListOpenPRs ==
    /\ pc = "listPRs"
    /\ prIdx' = 1
    /\ reviewedCommitShas' = {}
    /\ pc' = "listReviews"
    /\ UNCHANGED <<posVars, remote, currentCommitShas, uniqueCommits, dedupFailed,
                   exitCode, outcome, runOnly>>

CurrentPR == remote.prs[prIdx]

\* the loop over allPRs.data passes the pull request itself
SkipOwnPR ==
    /\ pc = "listReviews"
    /\ prIdx <= Len(remote.prs)
    /\ CurrentPR.number = PullNumber
    /\ prIdx' = prIdx + 1
    /\ UNCHANGED <<posVars, remote, currentCommitShas, reviewedCommitShas, uniqueCommits,
                   dedupFailed, pc, exitCode, outcome, runOnly>>

\* pulls.listReviews of another open pull request
ListReviews ==
    /\ pc = "listReviews"
    /\ prIdx <= Len(remote.prs)
    /\ CurrentPR.number # PullNumber
    /\ IF HasUserReviewed(CurrentPR.reviews)
         THEN pc' = "listPRCommits" /\ prIdx' = prIdx
         ELSE pc' = pc /\ prIdx' = prIdx + 1
    /\ UNCHANGED <<posVars, remote, currentCommitShas, reviewedCommitShas, uniqueCommits,
                   dedupFailed, exitCode, outcome, runOnly>>

\* pulls.listCommits of a reviewed pull request: its shas join the set
ListPRCommits ==
    /\ pc = "listPRCommits"
    /\ reviewedCommitShas' =
          reviewedCommitShas \cup {CurrentPR.commits[k] : k \in 1..Len(CurrentPR.commits)}
    /\ prIdx' = prIdx + 1
    /\ pc' = "listReviews"
    /\ UNCHANGED <<posVars, remote, currentCommitShas, uniqueCommits, dedupFailed,
                   exitCode, outcome, runOnly>>

\* getUniquePRCommits is waiting for a retrieval
AwaitingRetrieval ==
    \/ pc \in {"listCommits", "listPRs", "listPRCommits"}
    \/ pc = "listReviews" /\ prIdx <= Len(remote.prs) /\ CurrentPR.number # PullNumber

\* a catch that answers a failed retrieval with an empty list
GetUniqueCommitsFails_ReturnsEmpty ==
    /\ AwaitingRetrieval
    /\ dedupFailed' = TRUE
    /\ uniqueCommits' = <<>>
    /\ pc' = "getDiff"
    /\ UNCHANGED <<posVars, remote, currentCommitShas, prIdx, reviewedCommitShas,
                   exitCode, outcome, runOnly>>

\* a retrieval of getUniquePRCommits throws: its catch rethrows, the catch of
\* getPRDetails calls process.exit(1)
GetUniqueCommitsFails ==
    /\ AwaitingRetrieval
    /\ dedupFailed' = TRUE
    /\ Exit("1", "prDetailsFailed")
    /\ UNCHANGED <<posVars, remote, currentCommitShas, prIdx, reviewedCommitShas,
                   uniqueCommits, runOnly>>

\* the loop is over: getUniquePRCommits returns the filtered list and
\* getPRDetails returns to main
GetPRDetails ==
    /\ pc = "listReviews"
    /\ prIdx > Len(remote.prs)
    /\ uniqueCommits' = UniqueCommits(currentCommitShas, reviewedCommitShas)
    /\ pc' = "getDiff"
    /\ UNCHANGED <<posVars, remote, currentCommitShas, prIdx, reviewedCommitShas,
                   dedupFailed, exitCode, outcome, runOnly>>

\* getDiffExcludingTestingBranch: compareCommits throws, the catch returns
\* null, main logs "No diff found" and returns
GetDiffThrows ==
    /\ pc = "getDiff"
    /\ diffThrew' = TRUE
    /\ Exit("0", "noDiff")
    /\ UNCHANGED <<posVars, dedupVars, includeInput, includePatterns,
                   parsedDiff, filteredDiff, fileIdx, chunkIdx, callLog, comments,
                   fileDiffs, formattedComments, reviewCalls, submitted>>

\* compareCommits returns an empty text: `!diff`, main returns
GetDiffEmpty ==
    /\ pc = "getDiff"
    /\ Exit("0", "noDiff")
    /\ UNCHANGED <<posVars, dedupVars, diffThrew, includeInput, includePatterns,
                   parsedDiff, filteredDiff, fileIdx, chunkIdx, callLog, comments,
                   fileDiffs, formattedComments, reviewCalls, submitted>>

\* compareCommits returns a diff: parse it, compute the include patterns,
\* filter the files, return if none is left, else enter analyzeCode
GetDiffAndFilter ==
    /\ pc = "getDiff"
    /\ \E d \in ParsedDiffs :
        LET patterns == IncludePatterns(includeInput)
            kept == FilterDiff(d, patterns)
        IN /\ parsedDiff' = d
           /\ includePatterns' = patterns
           /\ filteredDiff' = kept
           /\ IF Len(kept) = 0
                THEN Exit("0", "noMatch") /\ fileIdx' = fileIdx
                ELSE /\ pc' = "analyzeCode" /\ fileIdx' = 1
                     /\ UNCHANGED <<exitCode, outcome>>
    /\ UNCHANGED <<posVars, dedupVars, diffThrew, includeInput, chunkIdx, callLog, comments,
                   fileDiffs, formattedComments, reviewCalls, submitted>>

CurrentFile == filteredDiff[fileIdx]

\* analyzeCode, loop control: a deleted file is skipped (`continue`), a file
\* whose chunks are all done is left
AnalyzeNextFile ==
    /\ pc = "analyzeCode"
    /\ fileIdx <= Len(filteredDiff)
    /\ CurrentFile.to = DevNull \/ chunkIdx = CurrentFile.chunks
    /\ fileIdx' = fileIdx + 1
    /\ chunkIdx' = 0
    /\ UNCHANGED <<posVars, dedupVars, pc, exitCode, outcome, diffThrew, includeInput, includePatterns,
                   parsedDiff, filteredDiff, callLog, comments,
                   fileDiffs, formattedComments, reviewCalls, submitted>>

\* a chunk whose failed reply ends analyzeCode with the error
AnalyzeChunk_Escapes ==
    /\ pc = "analyzeCode"
    /\ fileIdx <= Len(filteredDiff)
    /\ CurrentFile.to # DevNull
    /\ chunkIdx < CurrentFile.chunks
    /\ \E o \in ModelOutcomes(fileIdx, chunkIdx + 1) :
        /\ callLog' = Append(callLog, [file |-> fileIdx, chunk |-> chunkIdx + 1, outcome |-> o])
        /\ comments' = comments \o ChunkComments(CurrentFile, o)
        /\ IF o.threw \/ ~JsonParses(GetAIResponse(o)) \/ ~GetAIResponse(o).hasReviews
             THEN Exit("1", "analyzeFailed")
             ELSE UNCHANGED <<pc, exitCode, outcome>>
    /\ chunkIdx' = chunkIdx + 1
    /\ UNCHANGED <<posVars, dedupVars, diffThrew, includeInput, includePatterns,
                   parsedDiff, filteredDiff, fileIdx,
                   fileDiffs, formattedComments, reviewCalls, submitted>>

\* a chunk loop that is entered for deleted files too
AnalyzeChunk_DeletedToo ==
    /\ pc = "analyzeCode"
    /\ fileIdx <= Len(filteredDiff)
    /\ chunkIdx < CurrentFile.chunks
    /\ \E o \in ModelOutcomes(fileIdx, chunkIdx + 1) :
        /\ callLog' = Append(callLog, [file |-> fileIdx, chunk |-> chunkIdx + 1, outcome |-> o])
        /\ comments' = comments \o ChunkComments(CurrentFile, o)
    /\ chunkIdx' = chunkIdx + 1
    /\ UNCHANGED <<posVars, dedupVars, pc, exitCode, outcome, diffThrew, includeInput,
                   includePatterns, parsedDiff, filteredDiff, fileIdx,
                   fileDiffs, formattedComments, reviewCalls, submitted>>

\* analyzeCode, one chunk: the model is called and the comments made from
\* its reply are pushed; every error is caught inside the loop body
AnalyzeChunk ==
    /\ pc = "analyzeCode"
    /\ fileIdx <= Len(filteredDiff)
    /\ CurrentFile.to # DevNull
    /\ chunkIdx < CurrentFile.chunks
    /\ \E o \in ModelOutcomes(fileIdx, chunkIdx + 1) :
        /\ callLog' = Append(callLog, [file |-> fileIdx, chunk |-> chunkIdx + 1, outcome |-> o])
        /\ comments' = comments \o ChunkComments(CurrentFile, o)
    /\ chunkIdx' = chunkIdx + 1
    /\ UNCHANGED <<posVars, dedupVars, pc, exitCode, outcome, diffThrew, includeInput, includePatterns,
                   parsedDiff, filteredDiff, fileIdx,
                   fileDiffs, formattedComments, reviewCalls, submitted>>

\* analyzeCode returns; main goes on to createReviewComment when there are
\* comments and returns ("No comments generated.") when there are none
AnalyzeReturn ==
    /\ pc = "analyzeCode"
    /\ fileIdx > Len(filteredDiff)
    /\ IF Len(comments) > 0
         THEN pc' = "listFiles" /\ UNCHANGED <<exitCode, outcome>>
         ELSE Exit("0", "noComments")
    /\ UNCHANGED <<posVars, dedupVars, diffThrew, includeInput, includePatterns,
                   parsedDiff, filteredDiff, fileIdx, chunkIdx, callLog, comments,
                   fileDiffs, formattedComments, reviewCalls, submitted>>

\* createReviewComment: pulls.listFiles throws; main().catch calls process.exit(1)
ListFilesFails ==
    /\ pc = "listFiles"
    /\ Exit("1", "listFilesFailed")
    /\ UNCHANGED <<posVars, dedupVars, diffThrew, includeInput, includePatterns,
                   parsedDiff, filteredDiff, fileIdx, chunkIdx, callLog, comments,
                   fileDiffs, formattedComments, reviewCalls, submitted>>

\* createReviewComment: pulls.listFiles returns, every comment is formatted
ListFiles ==
    /\ pc = "listFiles"
    /\ \E fds \in ListedFiles :
        /\ fileDiffs' = fds
        /\ formattedComments' = FormatComments(fds, comments)
        /\ IF Len(FormatComments(fds, comments)) > 0
             THEN pc' = "createReview" /\ UNCHANGED <<exitCode, outcome>>
             ELSE Exit("0", "noValidComments")
    /\ UNCHANGED <<posVars, dedupVars, diffThrew, includeInput, includePatterns,
                   parsedDiff, filteredDiff, fileIdx, chunkIdx, callLog, comments,
                   reviewCalls, submitted>>

\* a submission that is tried again after it went through
CreateReview_Again ==
    /\ pc = "createReview"
    /\ reviewCalls' = reviewCalls + 1
    /\ submitted' = formattedComments
    /\ UNCHANGED <<posVars, dedupVars, pc, exitCode, outcome, diffThrew, includeInput, includePatterns,
                   parsedDiff, filteredDiff, fileIdx, chunkIdx, callLog, comments,
                   fileDiffs, formattedComments>>

\* pulls.createReview is called with all formatted comments and succeeds
CreateReview ==
    /\ pc = "createReview"
    /\ reviewCalls' = reviewCalls + 1
    /\ submitted' = formattedComments
    /\ Exit("0", "reviewed")
    /\ UNCHANGED <<posVars, dedupVars, diffThrew, includeInput, includePatterns,
                   parsedDiff, filteredDiff, fileIdx, chunkIdx, callLog, comments,
                   fileDiffs, formattedComments>>

\* pulls.createReview is called and throws; main().catch calls process.exit(1)
CreateReviewFails ==
    /\ pc = "createReview"
    /\ reviewCalls' = reviewCalls + 1
    /\ submitted' = formattedComments
    /\ Exit("1", "reviewFailed")
    /\ UNCHANGED <<posVars, dedupVars, diffThrew, includeInput, includePatterns,
                   parsedDiff, filteredDiff, fileIdx, chunkIdx, callLog, comments,
                   fileDiffs, formattedComments>>

\* getPRDetails with getUniquePRCommits
NextCommits ==
    \/ PullsGet \/ GetPRDetailsFails
    \/ ListCommits \/ ListOpenPRs \/ SkipOwnPR \/ ListReviews \/ ListPRCommits
    \/ GetUniqueCommitsFails \/ GetPRDetails

Next ==
    \/ NextCommits
    \/ GetDiffThrows \/ GetDiffEmpty \/ GetDiffAndFilter
    \/ AnalyzeNextFile \/ AnalyzeChunk \/ AnalyzeReturn
    \/ ListFilesFails \/ ListFiles
    \/ CreateReview \/ CreateReviewFails

Spec == Init /\ [][Next]_vars

\* getPRDetails alone, on every repository of the bounds
InitCommits == InitWith({<<>>}, Remotes)
SpecCommits == InitCommits /\ [][NextCommits]_vars

\* whole runs on the three repositories, with the include setting **/*.cs
InitDedupRun == InitWith({<<"cs">>}, RunRemotes)
SpecDedupRun == InitDedupRun /\ [][Next]_vars

TypeOK ==
    /\ pc \in {"getPRDetails", "listCommits", "listPRs", "listReviews", "listPRCommits",
              "getDiff", "analyzeCode", "listFiles", "createReview", "done"}
    /\ exitCode \in {"running", "0", "1"}
    /\ (pc = "done") = (exitCode # "running")
    /\ reviewCalls \in 0..1

(***************************************************************************)
(* Claims about the run                                                    *)
(***************************************************************************)
\* how far main() got
AfterFilter ==
    \/ pc \in {"analyzeCode", "listFiles", "createReview"}
    \/ outcome \in {"noMatch", "noComments", "listFilesFailed", "noValidComments",
                    "reviewed", "reviewFailed"}
AfterAnalysis ==
    \/ pc \in {"listFiles", "createReview"}
    \/ outcome \in {"noComments", "listFilesFailed", "noValidComments",
                    "reviewed", "reviewFailed"}
Formatted == pc = "createReview" \/ outcome \in {"reviewed", "reviewFailed"}

\* C3: a comment carries the position the mapper found, and no position at
\* all when the mapper returns null or the file has no patch text.
C3_PositionOrNone ==
    Formatted =>
        \A k \in 1..Len(formattedComments) :
            LET d == GetDiffPosition(fileDiffs, comments[k].path, comments[k].line)
            IN IF d.found
                 THEN formattedComments[k].hasPosition /\ formattedComments[k].position = d.pos
                 ELSE ~formattedComments[k].hasPosition

\* C4: when the branch comparison throws, the run ends with a non-zero exit
\* code and without any review submitted.
C4_DiffFailureIsFatal ==
    (diffThrew /\ pc = "done") => (exitCode = "1" /\ reviewCalls = 0)

\* C5: createReview is called at most once, with the whole comment batch;
\* it is not called when no file matches the include patterns or when
\* analysis yields no finding, and both of those runs end with exit code 0.
C5_SingleBatchedSubmission ==
    /\ reviewCalls <= 1
    /\ reviewCalls = 1 =>
          /\ submitted = formattedComments
          /\ Len(submitted) = Len(comments)
          /\ Len(comments) > 0
    /\ (AfterFilter /\ \A k \in 1..Len(parsedDiff) : ~MatchesSome(parsedDiff[k], includePatterns))
          => (pc = "done" /\ exitCode = "0" /\ reviewCalls = 0)
    /\ (AfterAnalysis /\ Len(comments) = 0)
          => (pc = "done" /\ exitCode = "0" /\ reviewCalls = 0)

\* a review with two comments went through
C5_Witness ==
    /\ outcome = "reviewed" /\ exitCode = "0" /\ reviewCalls = 1
    /\ Len(submitted) = 2 /\ submitted = formattedComments

\* a hunk whose model call failed, whose reply is not JSON, or whose reply
\* has no `reviews` array
FailedReply(o) ==
    o.threw \/ o.content.empty \/ ~o.content.valid \/ ~o.content.hasReviews

\* the findings a reply to a hunk of file f stands for
ReplyFindings(f, o) ==
    IF FailedReply(o) THEN <<>>
    ELSE [k \in 1..Len(o.content.reviews) |->
            [body |-> o.content.reviews[k].reviewComment,
             path |-> filteredDiff[f].to,
             line |-> ToNumber(o.content.reviews[k].lineNumber)]]

RECURSIVE FindingsOfLog(_)
FindingsOfLog(log) ==
    IF log = <<>> THEN <<>>
    ELSE ReplyFindings(Head(log).file, Head(log).outcome) \o FindingsOfLog(Tail(log))

\* the hunks analyzeCode has to send: those of the files that are not deleted
HunksToReview ==
    {h \in (1..Len(filteredDiff)) \X (1..MaxHunks) :
        filteredDiff[h[1]].to # DevNull /\ h[2] <= filteredDiff[h[1]].chunks}

CallsFor(h) == {k \in 1..Len(callLog) : callLog[k].file = h[1] /\ callLog[k].chunk = h[2]}

\* C6: a hunk whose reply failed contributes no finding, every other hunk
\* contributes its own findings, and analyzeCode never ends before every
\* hunk has been sent to the model once.
C6_HunkFailureIsLocal ==
    /\ comments = FindingsOfLog(callLog)
    /\ \A h \in HunksToReview : Cardinality(CallsFor(h)) <= 1
    /\ (fileIdx >= 1 /\ pc # "analyzeCode") =>
          \A h \in HunksToReview : Cardinality(CallsFor(h)) = 1

\* analysis finished; the second of three replies failed, the first and the
\* third contributed their findings
C6_Witness ==
    /\ AfterAnalysis
    /\ Len(callLog) = 3
    /\ FailedReply(callLog[2].outcome) /\ ~callLog[2].outcome.threw
    /\ ~FailedReply(callLog[1].outcome) /\ ~FailedReply(callLog[3].outcome)
    /\ Len(comments) = Len(callLog[1].outcome.content.reviews)
                         + Len(callLog[3].outcome.content.reviews)
    /\ Len(callLog[1].outcome.content.reviews) > 0
    /\ Len(callLog[3].outcome.content.reviews) > 0

\* C7: when the include setting splits into an empty pattern list, the
\* filter uses the default patterns **/*.cs and **/*.yml.
C7_EmptyListUsesDefault ==
    (AfterFilter /\ SplitPatterns(includeInput) = <<>>)
        => includePatterns = <<(<<"cs">>), (<<"yml">>)>>

\* the outcome logged for hunk h, if it was sent
LoggedFindings(h) ==
    IF CallsFor(h) = {} THEN <<>>
    ELSE LET k == CHOOSE x \in CallsFor(h) : TRUE
         IN ReplyFindings(h[1], callLog[k].outcome)

RECURSIVE FindingsFrom(_, _)
FindingsFrom(f, c) ==
    IF f > Len(filteredDiff) THEN <<>>
    ELSE IF c > filteredDiff[f].chunks THEN FindingsFrom(f + 1, 1)
    ELSE LoggedFindings(<<f, c>>) \o FindingsFrom(f, c + 1)

\* C10: the findings are in discovery order (file, then hunk, then reply
\* order) and the formatted and submitted batch has one comment per finding,
\* the k-th with the k-th finding's path and body.
C10_NoDropNoReorder ==
    /\ comments = FindingsFrom(1, 1)
    /\ Formatted =>
          /\ Len(formattedComments) = Len(comments)
          /\ \A k \in 1..Len(comments) :
                /\ formattedComments[k].path = comments[k].path
                /\ formattedComments[k].body = comments[k].body
    /\ reviewCalls = 1 =>
          /\ Len(submitted) = Len(comments)
          /\ \A k \in 1..Len(comments) :
                /\ submitted[k].path = comments[k].path
                /\ submitted[k].body = comments[k].body

\* a submitted batch of three comments on two files, one of them without a
\* diff position of its own
C10_Witness ==
    /\ reviewCalls = 1 /\ Len(submitted) = 3
    /\ submitted[1].path # submitted[3].path
    /\ \E k \in 1..3 : ~GetDiffPosition(fileDiffs, comments[k].path, comments[k].line).found
    /\ \E k \in 1..3 : GetDiffPosition(fileDiffs, comments[k].path, comments[k].line).found

\* the j-th smallest element of a set of indices
Nth(S, j) == CHOOSE k \in S : Cardinality({x \in S : x < k}) = j - 1

\* indices of the parsed files whose normalized path matches a pattern
MatchingFiles ==
    {k \in 1..Len(parsedDiff) :
        \E j \in 1..Len(includePatterns) :
            Minimatch(NormalizePath(parsedDiff[k].to), includePatterns[j])}

\* C11: the filter keeps exactly the files whose normalized path matches at
\* least one include pattern, in the parsed diff's order, and filtering the
\* result again with the same patterns changes nothing.
C11_FilterExactOrderedIdempotent ==
    AfterFilter =>
        /\ Len(filteredDiff) = Cardinality(MatchingFiles)
        /\ \A j \in 1..Len(filteredDiff) : filteredDiff[j] = parsedDiff[Nth(MatchingFiles, j)]
        /\ FilterDiff(filteredDiff, includePatterns) = filteredDiff

\* with two patterns, the first of two files was dropped and the second kept
C11_Witness ==
    /\ AfterFilter
    /\ Len(includePatterns) = 2
    /\ Len(parsedDiff) = 2 /\ Len(filteredDiff) = 1
    /\ filteredDiff[1] = parsedDiff[2] /\ parsedDiff[1] # parsedDiff[2]

(***************************************************************************)
(* Claims about getUniquePRCommits                                         *)
(***************************************************************************)
\* shas of the other open pull requests that the reviewer named "Peadar"
\* has reviewed
ReviewedByReviewer ==
    UNION {{remote.prs[n].commits[k] : k \in 1..Len(remote.prs[n].commits)} :
             n \in {m \in 1..Len(remote.prs) :
                      /\ remote.prs[m].number # PullNumber
                      /\ \E k \in 1..Len(remote.prs[m].reviews) :
                            remote.prs[m].reviews[k] = <<ReviewerUsername>>}}

NewCommitIndices ==
    {k \in 1..Len(remote.commits) : remote.commits[k] \notin ReviewedByReviewer}

\* getPRDetails has returned to main
DetailsReturned ==
    \/ pc \in {"getDiff", "analyzeCode", "listFiles", "createReview"}
    \/ pc = "done" /\ outcome # "prDetailsFailed"

\* C12: getUniquePRCommits returns the request's own commits, in their
\* order, without those of other open requests reviewed by the named reviewer.
C12_ExactlyUnreviewedCommits ==
    (DetailsReturned /\ ~dedupFailed) =>
        /\ Len(uniqueCommits) = Cardinality(NewCommitIndices)
        /\ \A j \in 1..Len(uniqueCommits) :
              uniqueCommits[j] = remote.commits[Nth(NewCommitIndices, j)]

\* C13: when a retrieval of getUniquePRCommits fails, the run exits with
\* code 1, getPRDetails never returns a list, and neither a model call nor
\* a review submission is made.
C13_RetrievalFailureIsFatal ==
    dedupFailed =>
        /\ pc = "done" /\ exitCode = "1"
        /\ ~DetailsReturned
        /\ callLog = <<>> /\ reviewCalls = 0

\* the reviews of the third open request could not be listed, after the
\* commits of the second had been collected
C13_Witness ==
    /\ dedupFailed /\ exitCode = "1"
    /\ prIdx = 3 /\ reviewedCommitShas = {"c1"}

\* a model call is made in file order, then hunk order
Precedes(a, b) == a.file < b.file \/ (a.file = b.file /\ a.chunk < b.chunk)

\* C14: the model is called once for each hunk of each filtered file that is
\* not deleted, in file order then hunk order, and never for a deleted file,
\* which contributes no finding.
C14_OneCallPerLiveHunk ==
    /\ \A k \in 1..Len(callLog) :
          /\ filteredDiff[callLog[k].file].to # DevNull
          /\ callLog[k].chunk <= filteredDiff[callLog[k].file].chunks
    /\ \A k \in 1..(Len(callLog) - 1) : Precedes(callLog[k], callLog[k + 1])
    /\ (fileIdx >= 1 /\ pc # "analyzeCode") => Len(callLog) = Cardinality(HunksToReview)
    /\ \A k \in 1..Len(comments) : comments[k].path # DevNull

\* analysis is over: a deleted file with a hunk got no call, the two hunks
\* of the file after it got one each
C14_Witness ==
    /\ fileIdx >= 1 /\ pc # "analyzeCode"
    /\ Len(filteredDiff) = 2
    /\ filteredDiff[1].to = DevNull /\ filteredDiff[1].chunks = 1
    /\ filteredDiff[2].to # DevNull /\ filteredDiff[2].chunks = 2
    /\ Len(callLog) = 2 /\ callLog[1].chunk = 1 /\ callLog[2].chunk = 2

\* C15: right after a hunk header has been scanned, the counter equals that
\* header's new-file start line, whether or not the header writes lengths.
C15_ResyncAtEveryHeader ==
    (posPc \in {"scan", "done"} /\ i >= 1 /\ patch[i].kind = "hdr")
        => currentLineInDiff = patch[i].newStart

\* C16: in a run in which getUniquePRCommits returned an empty list, no
\* model call is made and no review is submitted.
C16_EmptyListSuppressesReview ==
    (DetailsReturned /\ ~dedupFailed /\ uniqueCommits = <<>>)
        => (callLog = <<>> /\ reviewCalls = 0)
====
